---- MODULE Spec2Model ----
(***************************************************************************)
(* Model of swiftly.cli.cli.CLI: main-option resolution, backend selection *)
(* and command dispatch (src/swiftly/cli/cli.py).                          *)
(*                                                                         *)
(* One run of CLI.__call__ is a chain of steps; pc names the next step.    *)
(* Python values are tagged records so that isinstance() and truthiness    *)
(* can be modelled: [t |-> "none"], [t |-> "bool", b |-> ..],              *)
(* [t |-> "str", s |-> ..], [t |-> "int", n |-> ..].                       *)
(***************************************************************************)
EXTENDS Integers, Sequences, FiniteSets, TLC

VARIABLES
    pc,          \* next step of CLI.__call__
    args,        \* remaining args after main-option parsing (args[1] = command token)
    flags,       \* outcome of option_parser.parse_args: "none","error","version","help"
    cmdline,     \* option values as parsed from the command line
    environ,     \* os.environ, keyed by variable name
    conffile,    \* the configuration file on disk
    eventletLib, \* installed eventlet version, or "absent"
    options,     \* the optparse Values object being resolved
    conf,        \* self.context.conf: retained section name -> items
    context,     \* self.context attributes
    constructed, \* every ClientManager constructed, in order
    io_subprocess, \* self.context.io_manager.subprocess_module
    stdout,      \* what was printed (help / version)
    stderr,      \* lines written through io_manager.with_stderr()
    invoked,     \* command entry points invoked: <<name, args>>
    err,         \* the error raised by the invoked command, if any
    rc,          \* value returned by CLI.__call__
    uncaught     \* name of an exception that left CLI.__call__, or ""

vars == <<pc, args, flags, cmdline, environ, conffile, eventletLib, options,
          conf, context, constructed, io_subprocess, stdout, stderr, invoked,
          err, rc, uncaught>>

inputs == <<args, flags, cmdline, environ, conffile, eventletLib>>

-----------------------------------------------------------------------------
(* Python values *)

None == [t |-> "none"]

Unset == [t |-> "unset"]

B(b) == [t |-> "bool", b |-> b]

S(s) == [t |-> "str", s |-> s]

I(n) == [t |-> "int", n |-> n]

isbasestring(v) == v.t = "str"

\* Python truthiness, as used by "if options.x:" and "if not options:"
Truthy(v) ==
    CASE v.t = "none" -> FALSE
      [] v.t = "unset" -> FALSE
      [] v.t = "bool" -> v.b
      [] v.t = "str" -> v.s # ""
      [] v.t = "int" -> v.n # 0
      [] OTHER -> TRUE

-----------------------------------------------------------------------------
(* Program constants *)

COMMANDS == {"auth", "decrypt", "delete", "encrypt", "fordo", "get", "head",
             "help", "ping", "post", "put", "tempurl", "trans"}

TRUE_VALUES == {"1", "on", "t", "true", "y", "yes"}

OptionNames == <<"auth_url", "auth_user", "auth_key", "auth_tenant",
                 "auth_methods", "region", "direct", "local", "proxy", "snet",
                 "no_snet", "retries", "cache_auth", "no_cache_auth", "cdn",
                 "no_cdn", "concurrency", "eventlet", "no_eventlet", "verbose",
                 "no_verbose", "direct_object_ring">>

Opts == {OptionNames[i] : i \in 1..Len(OptionNames)}

BoolOptionNames == {"snet", "no_snet", "cache_auth", "no_cache_auth", "cdn",
                    "no_cdn", "eventlet", "no_eventlet", "verbose",
                    "no_verbose"}

IntOptionNames == <<"retries", "concurrency">>

DefaultRetries == 4

DefaultConcurrency == 1

\* (section_name + '_' + option_name).upper() for section_name = 'swiftly';
\* no option name starts with 'swiftly_', so the else branch is always taken.
environ_name(o) ==
    CASE o = "auth_url" -> "SWIFTLY_AUTH_URL"
      [] o = "auth_user" -> "SWIFTLY_AUTH_USER"
      [] o = "auth_key" -> "SWIFTLY_AUTH_KEY"
      [] o = "auth_tenant" -> "SWIFTLY_AUTH_TENANT"
      [] o = "auth_methods" -> "SWIFTLY_AUTH_METHODS"
      [] o = "region" -> "SWIFTLY_REGION"
      [] o = "direct" -> "SWIFTLY_DIRECT"
      [] o = "local" -> "SWIFTLY_LOCAL"
      [] o = "proxy" -> "SWIFTLY_PROXY"
      [] o = "snet" -> "SWIFTLY_SNET"
      [] o = "no_snet" -> "SWIFTLY_NO_SNET"
      [] o = "retries" -> "SWIFTLY_RETRIES"
      [] o = "cache_auth" -> "SWIFTLY_CACHE_AUTH"
      [] o = "no_cache_auth" -> "SWIFTLY_NO_CACHE_AUTH"
      [] o = "cdn" -> "SWIFTLY_CDN"
      [] o = "no_cdn" -> "SWIFTLY_NO_CDN"
      [] o = "concurrency" -> "SWIFTLY_CONCURRENCY"
      [] o = "eventlet" -> "SWIFTLY_EVENTLET"
      [] o = "no_eventlet" -> "SWIFTLY_NO_EVENTLET"
      [] o = "verbose" -> "SWIFTLY_VERBOSE"
      [] o = "no_verbose" -> "SWIFTLY_NO_VERBOSE"
      [] o = "direct_object_ring" -> "SWIFTLY_DIRECT_OBJECT_RING"

EnvNames == {environ_name(o) : o \in Opts}

\* str.lower() on the strings the model feeds in
lower(s) ==
    CASE s = "YES" -> "yes"
      [] s = "True" -> "true"
      [] s = "On" -> "on"
      [] OTHER -> s

\* int(s): the decimal strings the model feeds in; anything else is a ValueError
IntStrings == [s \in {"0", "2", "3", "5"} |->
                 CASE s = "0" -> 0 [] s = "2" -> 2 [] s = "3" -> 3 [] s = "5" -> 5]

int_ok(v) == v.t = "int" \/ (v.t = "str" /\ v.s \in DOMAIN IntStrings)

int(v) == IF v.t = "int" THEN v.n ELSE IntStrings[v.s]

-----------------------------------------------------------------------------
(* Configuration file: SafeConfigParser.read() then items() per section *)

NoItems == [o \in Opts |-> None]

\* The "for section in conf_parser.sections()" loop: items(section) raises a
\* ConfigParserError (an interpolation error) on a bad section, which ends the
\* loop; the sections copied before it stay in self.context.conf.
RECURSIVE copy_sections(_, _)
copy_sections(secs, store) ==
    IF secs = <<>> THEN store
    ELSE IF Head(secs).bad THEN store
    ELSE copy_sections(
            Tail(secs),
            [n \in DOMAIN store \cup {Head(secs).name} |->
                IF n = Head(secs).name THEN Head(secs).items ELSE store[n]])

EmptyStore == [n \in {} |-> NoItems]

\* lines 297-306: an unreadable file is skipped by read(); a file that does
\* not parse makes read() raise before any section is copied.
load_conf(file) ==
    IF ~file.readable THEN EmptyStore
    ELSE IF ~file.parses THEN EmptyStore
    ELSE copy_sections(file.sections, EmptyStore)

\* (self.context.conf.get(section_name, {})).get(conf_name)
conf_get(store, section_name, conf_name) ==
    IF section_name \in DOMAIN store THEN store[section_name][conf_name] ELSE None

\* os.environ.get(environ_name, default)
environ_get(env, name, default) ==
    IF env[name] # None THEN env[name] ELSE default

\* CLI._resolve_option, as the value options.<option_name> has afterwards
resolve_option_env_last(opts, env, store, option_name, section_name) ==
    IF opts[option_name] # None THEN opts[option_name]
    ELSE IF conf_get(store, section_name, option_name) # None
         THEN conf_get(store, section_name, option_name)
         ELSE env[environ_name(option_name)]

resolve_option(opts, env, store, option_name, section_name) ==
    IF opts[option_name] # None THEN opts[option_name]
    ELSE environ_get(env, environ_name(option_name),
                     conf_get(store, section_name, option_name))

\* lines 315-321: string values of the boolean options become booleans
coerce_bool(v) ==
    IF isbasestring(v) THEN B(lower(v.s) \in TRUE_VALUES) ELSE v

\* lines 322-325: string values of the integer options become integers
coerce_int(v) ==
    IF isbasestring(v) THEN I(int(v)) ELSE v

\* lines 326-349: the built-in defaults
default_of(o) ==
    CASE o \in BoolOptionNames -> B(FALSE)
      [] o = "retries" -> I(DefaultRetries)
      [] o = "concurrency" -> I(DefaultConcurrency)
      [] OTHER -> None

with_default(o, v) == IF v = None THEN default_of(o) ELSE v

\* the first integer option, in loop order, whose string value int() rejects
int_error(opts) ==
    \E i \in 1..Len(IntOptionNames) :
        isbasestring(opts[IntOptionNames[i]]) /\ ~int_ok(opts[IntOptionNames[i]])

coerce_options(opts) ==
    [o \in Opts |->
        with_default(o,
            IF o \in BoolOptionNames THEN coerce_bool(opts[o])
            ELSE IF \E i \in 1..Len(IntOptionNames) : IntOptionNames[i] = o
                 THEN coerce_int(opts[o])
                 ELSE opts[o])]

-----------------------------------------------------------------------------
(* Eventlet detection, lines 351-376 *)

\* eventlet.__version__ >= '0.11.0' is a comparison of strings, character by
\* character: "0.9.16" compares greater, "0.10.0" smaller.
version_ge_0_11_0(v) ==
    CASE v = "0.9.16" -> TRUE
      [] v = "0.10.0" -> FALSE
      [] v = "0.12.0" -> TRUE
      [] OTHER -> FALSE

context_eventlet(opts, lib) ==
    IF Truthy(opts["no_eventlet"]) THEN B(FALSE)
    ELSE IF Truthy(opts["eventlet"]) THEN B(TRUE)
    ELSE B(lib # "absent" /\ version_ge_0_11_0(lib))

subprocess_module(ev, lib) ==
    IF Truthy(ev) /\ lib # "absent" THEN "eventlet.green.subprocess"
    ELSE "subprocess"

-----------------------------------------------------------------------------
(* Backend selection, lines 384-414 *)

AUTH_CACHE_PATH == S("<tempdir>/<USER>.swiftly")

VERBOSE_FUNC == [t |-> "func", f |-> "_verbose"]

NO_AUTH_URL == "No Auth URL has been given.\n"

select_backend_direct_first(opts, argv) ==
    IF argv # <<>> /\ argv[1] = "help" THEN "help"
    ELSE IF Truthy(opts["direct"]) THEN "Direct"
    ELSE IF Truthy(opts["local"]) THEN "Local"
    ELSE IF ~Truthy(opts["auth_url"]) THEN "NoAuth"
    ELSE "Standard"

select_backend_no_help(opts, argv) ==
    IF Truthy(opts["local"]) THEN "Local"
    ELSE IF Truthy(opts["direct"]) THEN "Direct"
    ELSE IF ~Truthy(opts["auth_url"]) THEN "NoAuth"
    ELSE "Standard"

select_backend_no_auth_check(opts, argv) ==
    IF argv # <<>> /\ argv[1] = "help" THEN "help"
    ELSE IF Truthy(opts["local"]) THEN "Local"
    ELSE IF Truthy(opts["direct"]) THEN "Direct"
    ELSE "Standard"

\* which branch of the if/elif chain at lines 385-414 is taken
select_backend(opts, argv) ==
    IF argv # <<>> /\ argv[1] = "help" THEN "help"
    ELSE IF Truthy(opts["local"]) THEN "Local"
    ELSE IF Truthy(opts["direct"]) THEN "Direct"
    ELSE IF ~Truthy(opts["auth_url"]) THEN "NoAuth"
    ELSE "Standard"

\* the ClientManager each branch constructs, with the keyword arguments it gets
LocalClient(opts) ==
    [kind |-> "Local", path |-> opts["local"], attempts |-> Unset,
     eventlet |-> Unset, snet |-> Unset, auth_url |-> Unset,
     auth_cache_path |-> Unset, direct_object_ring |-> Unset,
     verbose |-> VERBOSE_FUNC]

DirectClient(opts, ctx) ==
    [kind |-> "Direct", path |-> opts["direct"],
     attempts |-> I(opts["retries"].n + 1), eventlet |-> ctx.eventlet,
     snet |-> Unset, auth_url |-> Unset, auth_cache_path |-> Unset,
     direct_object_ring |-> opts["direct_object_ring"],
     verbose |-> VERBOSE_FUNC]

StandardClient_attempts_is_retries(opts, ctx) ==
    [kind |-> "Standard", path |-> Unset,
     attempts |-> I(opts["retries"].n), eventlet |-> ctx.eventlet,
     snet |-> opts["snet"], auth_url |-> opts["auth_url"],
     auth_cache_path |->
        IF Truthy(opts["cache_auth"]) THEN AUTH_CACHE_PATH ELSE None,
     direct_object_ring |-> Unset,
     verbose |-> VERBOSE_FUNC]

StandardClient(opts, ctx) ==
    [kind |-> "Standard", path |-> Unset,
     attempts |-> I(opts["retries"].n + 1), eventlet |-> ctx.eventlet,
     snet |-> opts["snet"], auth_url |-> opts["auth_url"],
     auth_cache_path |->
        IF Truthy(opts["cache_auth"]) THEN AUTH_CACHE_PATH ELSE None,
     direct_object_ring |-> Unset,
     verbose |-> VERBOSE_FUNC]

-----------------------------------------------------------------------------
(* Dispatch, lines 448-473 *)

TRACEBACK == "Traceback (most recent call last): ...\n"

command_of(token) == IF token = "for" THEN "fordo" ELSE token

in_registry_any(command) == TRUE

in_registry(command) == command \in COMMANDS

\* 'ERROR unknown command %r\n' % args[0], for the tokens the model feeds in
unknown_command_line(token) == "ERROR unknown command '" \o token \o "'\n"

\* an error a command can raise: text and code are Unset when the error has
\* no such attribute
NoError == [raised |-> FALSE, text |-> Unset, code |-> Unset]

hasattr(v) == v # Unset

error_lines_trace_on_empty(e) ==
    IF hasattr(e.text) /\ Truthy(e.text)
    THEN <<"ERROR " \o e.text.s \o "\n">>
    ELSE <<TRACEBACK \o "\n">>

\* what lines 460-471 write to the error stream
error_lines(e) ==
    IF hasattr(e.text)
    THEN IF Truthy(e.text) THEN <<"ERROR " \o e.text.s \o "\n">> ELSE <<>>
    ELSE <<TRACEBACK \o "\n">>

error_code_always_1(e) == I(1)

\* getattr(err, 'code', 1)
error_code(e) == IF hasattr(e.code) THEN e.code ELSE I(1)

-----------------------------------------------------------------------------
(* Inputs of one run *)

MaxSections == 2

SectionNames == {"swiftly", "other", "extra"}

only(f) == [o \in Opts |-> IF o \in DOMAIN f THEN f[o] ELSE None]

env_only(f) ==
    [e \in EnvNames |->
        IF \E o \in DOMAIN f : environ_name(o) = e
        THEN f[CHOOSE o \in DOMAIN f : environ_name(o) = e]
        ELSE None]

\* the sections of a file in file order; a section name occurs once
Layouts ==
    {l \in UNION {[1..n -> SectionNames \X BOOLEAN] : n \in 0..MaxSections} :
        \A i, j \in DOMAIN l : l[i][1] = l[j][1] => i = j}

file_of(status, layout, items) ==
    [readable |-> status # "unreadable",
     parses |-> status = "ok",
     sections |->
        [i \in DOMAIN layout |->
            [name |-> layout[i][1], bad |-> layout[i][2],
             items |-> IF layout[i][1] = "swiftly" THEN items ELSE NoItems]]]

Pairs == {<<"snet", "no_snet">>, <<"cache_auth", "no_cache_auth">>,
          <<"cdn", "no_cdn">>, <<"eventlet", "no_eventlet">>,
          <<"verbose", "no_verbose">>}

\* values a source can hold for an option, distinct per source
CmdValues(o) ==
    IF o \in BoolOptionNames THEN {None, B(TRUE)}
    ELSE IF o \in {"retries", "concurrency"} THEN {None, S("2")}
    ELSE {None, S("cmd")}

EnvValues(o) ==
    IF o \in BoolOptionNames THEN {None, S("True"), S("no")}
    ELSE IF o \in {"retries", "concurrency"} THEN {None, S("3"), S("abc")}
    ELSE {None, S(""), S("env")}

ConfValues(o) ==
    IF o \in BoolOptionNames THEN {None, S("YES"), S("0")}
    ELSE IF o \in {"retries", "concurrency"} THEN {None, S("5"), S("1x")}
    ELSE {None, S(""), S("cfg")}

EventletLibs == {"absent", "0.10.0", "0.12.0"}

\* one negation pair varies over all three sources
InitPairs ==
    \E p \in Pairs :
    \E cx \in CmdValues(p[1]), cn \in CmdValues(p[2]),
       ex \in EnvValues(p[1]), en \in EnvValues(p[2]),
       fx \in ConfValues(p[1]), fn \in ConfValues(p[2]) :
        /\ cmdline = only(p[1] :> cx @@ p[2] :> cn @@ "auth_url" :> S("cmd"))
        /\ environ = env_only(p[1] :> ex @@ p[2] :> en)
        /\ conffile = file_of("ok", <<<<"swiftly", FALSE>>>>,
                              only(p[1] :> fx @@ p[2] :> fn))
        /\ args \in {<<"get", "c">>, <<"help">>}
        /\ flags = "none"
        /\ eventletLib \in EventletLibs

\* one option varies over all three sources and every file layout
InitCascade ==
    \E o \in Opts :
    \E c \in CmdValues(o), e \in EnvValues(o), f \in ConfValues(o),
       l \in Layouts :
        /\ cmdline = only(o :> c)
        /\ environ = env_only(o :> e)
        /\ conffile = file_of("ok", l, only(o :> f))
        /\ args = <<"get", "c">>
        /\ flags = "none"
        /\ eventletLib = "absent"

\* the file is readable or not, parses or not, in every layout
InitFile ==
    \E st \in {"ok", "unreadable", "unparsable"}, l \in Layouts,
       e \in EnvValues("auth_url") :
        /\ cmdline = only(<<>>)
        /\ environ = env_only("auth_url" :> e)
        /\ conffile = file_of(st, l, only("auth_url" :> S("cfg")))
        /\ args \in {<<"get", "c">>, <<"help">>}
        /\ flags = "none"
        /\ eventletLib = "0.9.16"

\* the options backend selection reads, every command token, every parse outcome
InitBackend ==
    \E lo \in EnvValues("local"), di \in EnvValues("direct"),
       au \in EnvValues("auth_url"), re \in EnvValues("retries"),
       co \in ConfValues("concurrency") :
        /\ cmdline = only(<<>>)
        /\ environ = env_only("local" :> lo @@ "direct" :> di @@
                              "auth_url" :> au @@ "retries" :> re)
        /\ conffile = file_of("ok", <<<<"swiftly", FALSE>>>>,
                              only("concurrency" :> co))
        /\ args \in {<<>>, <<"help">>, <<"help", "get">>, <<"get", "c">>,
                     <<"for", "x">>, <<"bogus">>}
        /\ flags \in {"none", "error", "version", "help"}
        /\ eventletLib = "absent"

\* CLI.__init__, lines 97-99
InitContext ==
    [original_begin |-> Unset, original_args |-> Unset, eventlet |-> Unset,
     verbosity |-> Unset, verbose |-> None, io_verbose |-> Unset,
     cdn |-> Unset, concurrency |-> Unset, client_manager |-> Unset]

Init ==
    /\ InitPairs \/ InitCascade \/ InitFile \/ InitBackend
    /\ pc = "parse"
    /\ options = only(<<>>)
    /\ conf = EmptyStore
    /\ context = InitContext
    /\ constructed = <<>>
    /\ io_subprocess = "unset"
    /\ stdout = <<>>
    /\ stderr = <<>>
    /\ invoked = <<>>
    /\ err = NoError
    /\ rc = None
    /\ uncaught = ""

-----------------------------------------------------------------------------
(* CLI.__call__: _parse_args step by step, then _perform_command *)

\* "return None, None" in _parse_args, then "if not options: return 1"
ReturnNone ==
    /\ pc' = "done"
    /\ rc' = I(1)

\* lines 274-295: parse the command line; an option error, --version, -h or
\* an empty argument list end the run
ParseArgs ==
    /\ pc = "parse"
    /\ context' = [context EXCEPT !.original_begin = S("time.time()"),
                                  !.original_args = S("args")]
    /\ IF flags = "error"
       THEN ReturnNone /\ UNCHANGED <<options, stdout>>
       ELSE IF flags = "version"
       THEN ReturnNone /\ stdout' = Append(stdout, "version")
                       /\ UNCHANGED options
       ELSE IF args = <<>> \/ flags = "help"
       THEN ReturnNone /\ stdout' = Append(stdout, "help")
                       /\ UNCHANGED options
       ELSE /\ pc' = "conf"
            /\ options' = cmdline
            /\ UNCHANGED <<rc, stdout>>
    /\ UNCHANGED <<inputs, conf, constructed, io_subprocess, stderr, invoked,
                   err, uncaught>>

\* lines 297-306: load the configuration file into self.context.conf
LoadConf ==
    /\ pc = "conf"
    /\ conf' = load_conf(conffile)
    /\ pc' = "resolve"
    /\ UNCHANGED <<inputs, options, context, constructed, io_subprocess,
                   stdout, stderr, invoked, err, rc, uncaught>>

\* lines 308-314: _resolve_option for every main option
ResolveOptions ==
    /\ pc = "resolve"
    /\ options' = [o \in Opts |->
                     resolve_option(options, environ, conf, o, "swiftly")]
    /\ pc' = "coerce"
    /\ UNCHANGED <<inputs, conf, context, constructed, io_subprocess, stdout,
                   stderr, invoked, err, rc, uncaught>>

\* lines 315-349: coerce booleans and integers, fill in the defaults; int() of
\* a malformed string raises ValueError, which nothing in the class catches
CoerceOptions ==
    /\ pc = "coerce"
    /\ IF int_error(options)
       THEN /\ pc' = "done"
            /\ uncaught' = "ValueError"
            /\ options' = [o \in Opts |->
                             IF o \in BoolOptionNames
                             THEN coerce_bool(options[o]) ELSE options[o]]
       ELSE /\ pc' = "eventlet"
            /\ options' = coerce_options(options)
            /\ UNCHANGED uncaught
    /\ UNCHANGED <<inputs, conf, context, constructed, io_subprocess, stdout,
                   stderr, invoked, err, rc>>

\* lines 351-376: decide context.eventlet and the subprocess module
SetupEventlet ==
    /\ pc = "eventlet"
    /\ context' = [context EXCEPT
                     !.eventlet = context_eventlet(options, eventletLib)]
    /\ io_subprocess' = subprocess_module(context'.eventlet, eventletLib)
    /\ pc' = "verbose"
    /\ UNCHANGED <<inputs, options, conf, constructed, stdout, stderr,
                   invoked, err, rc, uncaught>>

\* lines 378-382
SetupVerbose ==
    /\ pc = "verbose"
    /\ context' = IF Truthy(options["verbose"])
                  THEN [context EXCEPT !.verbosity = I(1),
                                       !.verbose = VERBOSE_FUNC,
                                       !.io_verbose = VERBOSE_FUNC]
                  ELSE context
    /\ pc' = "select"
    /\ UNCHANGED <<inputs, options, conf, constructed, io_subprocess, stdout,
                   stderr, invoked, err, rc, uncaught>>

with_client_no_concurrency(ctx, opts, client) ==
    [ctx EXCEPT !.client_manager = client,
                !.cdn = opts["cdn"]]

\* the tail of _parse_args after a backend was constructed, lines 416-419
with_client(ctx, opts, client) ==
    [ctx EXCEPT !.client_manager = client,
                !.cdn = opts["cdn"],
                !.concurrency = I(int(opts["concurrency"]))]

\* lines 384-419: construct the backend, or skip it for help, or give up
SelectBackend ==
    /\ pc = "select"
    /\ LET kind == select_backend(options, args)
           client == CASE kind = "Local" -> LocalClient(options)
                       [] kind = "Direct" -> DirectClient(options, context)
                       [] OTHER -> StandardClient(options, context)
       IN  IF kind = "help"
           THEN /\ pc' = "perform"
                /\ UNCHANGED <<context, constructed, stderr, rc>>
           ELSE IF kind = "NoAuth"
           THEN /\ ReturnNone
                /\ stderr' = Append(stderr, NO_AUTH_URL)
                /\ UNCHANGED <<context, constructed>>
           ELSE /\ pc' = "perform"
                /\ constructed' = Append(constructed, client)
                /\ context' = with_client(context, options, client)
                /\ UNCHANGED <<stderr, rc>>
    /\ UNCHANGED <<inputs, options, conf, io_subprocess, stdout, invoked,
                   err, uncaught>>

\* the errors a command's entry point may raise
Errors ==
    {[raised |-> TRUE, text |-> tx, code |-> cd] :
        tx \in {Unset, None, S(""), S("quota exceeded")},
        cd \in {Unset, I(3)}}

\* lines 448-473: look the command up, invoke it, map its error to an exit code
PerformCommand ==
    /\ pc = "perform"
    /\ pc' = "done"
    /\ LET command == command_of(args[1])
       IN  IF ~in_registry(command)
           THEN /\ stderr' = Append(stderr, unknown_command_line(args[1]))
                /\ rc' = I(1)
                /\ UNCHANGED <<invoked, err>>
           ELSE /\ invoked' = Append(invoked, <<command, Tail(args)>>)
                /\ \E e \in Errors \cup {NoError} :
                     /\ err' = e
                     /\ IF e.raised
                        THEN /\ stderr' = stderr \o error_lines(e)
                             /\ rc' = error_code(e)
                        ELSE /\ rc' = I(0)
                             /\ UNCHANGED stderr
    /\ UNCHANGED <<inputs, options, conf, context, constructed, io_subprocess,
                   stdout, uncaught>>

Next ==
    \/ ParseArgs
    \/ LoadConf
    \/ ResolveOptions
    \/ CoerceOptions
    \/ SetupEventlet
    \/ SetupVerbose
    \/ SelectBackend
    \/ PerformCommand

Spec == Init /\ [][Next]_vars

-----------------------------------------------------------------------------
(* Properties *)

\* the run got past the option parser with a command token left
Parsed == flags = "none" /\ args # <<>>

Token == args[1]

Present(v) == v \notin {None, S("")}

SwiftlySection(o) == IF "swiftly" \in DOMAIN conf THEN conf["swiftly"][o] ELSE None

\* C1: for each of the five negation pairs, when the no-X half resolves
\* truthy the effective X consumed downstream is false: snet passed to the
\* Standard backend, the auth-cache path, context.cdn, context.eventlet and
\* the verbosity / emit function.
C1_NegationOverrides ==
    (pc = "perform") =>
        /\ (options["no_snet"] = B(TRUE) /\ constructed # <<>> =>
                constructed[1].snet # B(TRUE))
        /\ (options["no_cache_auth"] = B(TRUE) /\ constructed # <<>> =>
                constructed[1].auth_cache_path \in {None, Unset})
        /\ (options["no_cdn"] = B(TRUE) => context.cdn # B(TRUE))
        /\ (options["no_eventlet"] = B(TRUE) => context.eventlet # B(TRUE))
        /\ (options["no_verbose"] = B(TRUE) =>
                context.verbosity # I(1) /\ context.verbose = None)

\* C2: after resolution every main option holds the value of the first
\* non-absent source in the order command line, environment variable
\* SWIFTLY_<NAME>, section "swiftly" of the configuration store; when all
\* three are absent the built-in default applies (retries 4, concurrency 1,
\* booleans false, nothing for the others).
C2_Cascade ==
    /\ (pc = "coerce") =>
        \A o \in Opts :
            options[o] =
                IF cmdline[o] # None THEN cmdline[o]
                ELSE IF environ[environ_name(o)] # None
                     THEN environ[environ_name(o)]
                     ELSE SwiftlySection(o)
    /\ (pc \in {"eventlet", "verbose", "select", "perform"}) =>
        \A o \in Opts :
            (cmdline[o] = None /\ environ[environ_name(o)] = None
                /\ SwiftlySection(o) = None) =>
                options[o] = CASE o \in BoolOptionNames -> B(FALSE)
                               [] o = "retries" -> I(4)
                               [] o = "concurrency" -> I(1)
                               [] OTHER -> None

\* an option absent on the command line, set in the environment and in the
\* configuration store to different values, resolved to the environment's
C2_Witness ==
    /\ pc = "coerce"
    /\ \E o \in Opts :
        /\ cmdline[o] = None
        /\ environ[environ_name(o)] # None
        /\ SwiftlySection(o) # None
        /\ SwiftlySection(o) # environ[environ_name(o)]
        /\ options[o] = environ[environ_name(o)]

\* C3 as stated: a command token that is not in the registry always ends in
\* the single line "ERROR unknown command ..." on the error stream, exit code
\* 1 and no command invoked, whatever the resolved options are.
C3_UnknownCommandAlways ==
    (pc = "done" /\ Parsed /\ Token = "bogus" /\ rc # None) =>
        /\ stderr = <<"ERROR unknown command 'bogus'\n">>
        /\ rc = I(1)
        /\ invoked = <<>>

\* C3 amended: a command token that is not in the registry never invokes a
\* command and never returns 0; when resolution and backend selection
\* succeeded (a backend was constructed) the run writes the single line
\* "ERROR unknown command ..." and returns 1; when they failed that line is
\* not written and the resolution failure is what is reported.
C3_UnknownCommand ==
    (pc = "done" /\ args # <<>> /\ Token = "bogus") =>
        /\ invoked = <<>>
        /\ rc # I(0)
        /\ (constructed # <<>> =>
                /\ stderr = <<"ERROR unknown command 'bogus'\n">>
                /\ rc = I(1))
        /\ (constructed = <<>> =>
                stderr \in {<<>>, <<"No Auth URL has been given.\n">>})

C3_Witness ==
    /\ pc = "done"
    /\ args = <<"bogus">>
    /\ constructed # <<>>
    /\ stderr = <<"ERROR unknown command 'bogus'\n">>
    /\ rc = I(1)

\* C4 as stated: an error raised by a command that has no text member, or an
\* empty text, always gives a full trace on the error stream and exit code 1,
\* whatever else the error carries.
C4_TraceAndOneAlways ==
    (pc = "done" /\ err.raised /\ err.text \in {Unset, None, S("")}) =>
        /\ stderr = <<"Traceback (most recent call last): ...\n\n">>
        /\ rc = I(1)

\* C4 amended: an error with no text member gives a full trace on the error
\* stream; an error whose text member is empty writes nothing; in both cases
\* the exit code is the error's own code when it carries one, else 1.
C4_NoText ==
    (pc = "done" /\ err.raised /\ err.text \in {Unset, None, S("")}) =>
        /\ (err.text = Unset =>
                stderr = <<"Traceback (most recent call last): ...\n\n">>)
        /\ (err.text # Unset => stderr = <<>>)
        /\ (err.code = Unset => rc = I(1))
        /\ (err.code # Unset => rc = err.code)

C4_Witness ==
    /\ pc = "done"
    /\ err.raised
    /\ err.text = S("")
    /\ err.code = I(3)
    /\ stderr = <<>>
    /\ rc = I(3)

\* C5: a malformed integer string resolved for retries or concurrency ends
\* the run with a single-line message on the error stream and exit code 1,
\* with no backend constructed and no command executed.
C5_MalformedInteger ==
    (pc = "done" /\ Parsed
        /\ (options["retries"] \in {S("abc"), S("1x")}
            \/ options["concurrency"] \in {S("abc"), S("1x")})) =>
        /\ rc = I(1)
        /\ Len(stderr) = 1
        /\ uncaught = ""
        /\ constructed = <<>>
        /\ invoked = <<>>


\* C6: when the first remaining token is "help" no backend is ever
\* constructed, and once the main options are resolved the help command is
\* dispatched with the remaining arguments and the run returns 0 when it
\* completes, also with no auth URL anywhere and a configuration file that
\* does not parse.
C6_HelpBypassesBackend ==
    (Parsed /\ Token = "help") =>
        /\ constructed = <<>>
        /\ context.client_manager = Unset
        /\ (pc = "done" /\ uncaught = "" =>
                /\ invoked = <<<<"help", Tail(args)>>>>
                /\ (~err.raised => rc = I(0)))

C6_Witness ==
    /\ pc = "done"
    /\ args = <<"help">>
    /\ options["auth_url"] = None
    /\ ~conffile.parses
    /\ constructed = <<>>
    /\ invoked = <<<<"help", <<>>>>>>
    /\ rc = I(0)

\* the backend the selection order names for the resolved options
ExpectedKind ==
    IF Present(options["local"]) THEN "Local"
    ELSE IF Present(options["direct"]) THEN "Direct"
    ELSE IF Present(options["auth_url"]) THEN "Standard"
    ELSE "none"

\* C7: for a non-help invocation at most one backend is ever constructed;
\* at the end of the run either exactly one was, of the kind the order
\* Local, Direct, Standard names (Local also when a direct path is set), or
\* none was, resolution failed and no command ran; a command only runs with
\* its backend in place.
C7_BackendSelection ==
    (Parsed /\ Token # "help") =>
        /\ Len(constructed) <= 1
        /\ (invoked # <<>> => Len(constructed) = 1)
        /\ (pc \in {"perform", "done"} =>
              \/ /\ Len(constructed) = 1
                 /\ constructed[1].kind = ExpectedKind
                 /\ context.client_manager = constructed[1]
              \/ /\ constructed = <<>>
                 /\ invoked = <<>>
                 /\ pc = "done"
                 /\ rc # I(0)
                 /\ (ExpectedKind = "none" \/ uncaught = "ValueError"))

C7_Witness ==
    /\ pc = "done"
    /\ Present(options["local"])
    /\ Present(options["direct"])
    /\ Len(constructed) = 1
    /\ constructed[1].kind = "Local"
    /\ invoked # <<>>

\* C8: for a non-help command with neither a local nor a direct path and an
\* absent or empty auth URL, no backend is constructed, no command is invoked
\* and the run does not return 0; when backend selection is reached the run
\* writes the one-line message "No Auth URL has been given." (no trace) and
\* returns 1.
C8_NoAuthUrl ==
    (pc = "done" /\ Parsed /\ Token # "help"
        /\ ~Present(options["local"]) /\ ~Present(options["direct"])
        /\ ~Present(options["auth_url"])) =>
        /\ constructed = <<>>
        /\ context.client_manager = Unset
        /\ invoked = <<>>
        /\ rc # I(0)
        /\ (uncaught = "" =>
                /\ stderr = <<"No Auth URL has been given.\n">>
                /\ rc = I(1))

C8_Witness ==
    /\ pc = "done"
    /\ args = <<"get", "c">>
    /\ options["local"] = None
    /\ options["direct"] = S("")
    /\ options["auth_url"] = S("")
    /\ stderr = <<"No Auth URL has been given.\n">>
    /\ rc = I(1)
    /\ constructed = <<>>

\* C9: an error raised by a command with a non-empty text gives exactly the
\* line "ERROR <text>\n" on the error stream and the error's own code as exit
\* code, 1 when it has none ("quota exceeded" with code 3 gives
\* "ERROR quota exceeded\n" and 3); a command that does not raise gives 0.
C9_CommandError ==
    (pc = "done" /\ invoked # <<>>) =>
        /\ (err.raised /\ err.text = S("quota exceeded") =>
                /\ stderr = <<"ERROR quota exceeded\n">>
                /\ (err.code = I(3) => rc = I(3))
                /\ (err.code = Unset => rc = I(1)))
        /\ (~err.raised => rc = I(0) /\ stderr = <<>>)

C9_Witness ==
    /\ pc = "done"
    /\ err.raised
    /\ err.text = S("quota exceeded")
    /\ err.code = I(3)
    /\ stderr = <<"ERROR quota exceeded\n">>
    /\ rc = I(3)

\* the configuration file cannot be read, does not parse, or has a section
\* whose values cannot be interpolated
Malformed(file) ==
    \/ ~file.readable
    \/ ~file.parses
    \/ \E i \in DOMAIN file.sections : file.sections[i].bad

\* C10: once an unreadable or malformed configuration file was loaded the
\* configuration store is completely empty, no section of the file is kept,
\* and the run goes on to resolve the options.
C10_MalformedLeavesEmptyStore ==
    (pc \notin {"parse", "conf"} /\ Parsed /\ Malformed(conffile)) =>
        DOMAIN conf = {}


\* retries is set in no source
RetriesUnset ==
    /\ cmdline["retries"] = None
    /\ environ["SWIFTLY_RETRIES"] = None
    /\ SwiftlySection("retries") = None

\* C11: every Direct or Standard backend is constructed with an attempt
\* count of the resolved retries plus 1; with retries set in no source
\* retries resolves to 4 and the attempt count is 5 (SWIFTLY_RETRIES=3 alone
\* gives 4 attempts).
C11_AttemptsIsRetriesPlusOne ==
    /\ (pc \in {"eventlet", "verbose", "select", "perform"} /\ RetriesUnset =>
            options["retries"] = I(4))
    /\ \A i \in DOMAIN constructed :
        constructed[i].kind \in {"Direct", "Standard"} =>
            /\ options["retries"].t = "int"
            /\ constructed[i].attempts = I(options["retries"].n + 1)
            /\ (RetriesUnset => constructed[i].attempts = I(5))
            /\ (cmdline["retries"] = None
                    /\ environ["SWIFTLY_RETRIES"] = S("3") =>
                        constructed[i].attempts = I(4))

C11_Witness ==
    /\ RetriesUnset
    /\ Len(constructed) = 1
    /\ constructed[1].kind = "Standard"
    /\ options["retries"] = I(4)
    /\ constructed[1].attempts = I(5)


\* a command entry point is about to be invoked, or was
AtInvocation ==
    /\ pc \in {"perform", "done"}
    /\ Parsed
    /\ Token \in {"help", "get", "for"}
    /\ (pc = "done" => invoked # <<>>)

\* C12 as stated: whenever a command entry point is invoked, help included,
\* the context has its start timestamp, verbosity level, concurrency count
\* and CDN flag set, and its backend handle for every command but help.
C12_ContextFullyPopulated ==
    AtInvocation =>
        /\ context.original_begin # Unset
        /\ context.verbosity # Unset
        /\ context.concurrency # Unset
        /\ context.cdn # Unset
        /\ (Token # "help" => context.client_manager # Unset)

\* C12 amended: whenever a command other than help is invoked the context
\* has its start timestamp, concurrency count, CDN flag and backend handle
\* set; the verbosity level is 1 when verbose resolved true and is otherwise
\* never assigned; when help is invoked the start timestamp (and the
\* verbosity, as before) are set but concurrency count, CDN flag and backend
\* handle are not.
C12_ContextAtInvocation ==
    AtInvocation =>
        /\ context.original_begin # Unset
        /\ context.eventlet \in {B(TRUE), B(FALSE)}
        /\ (options["verbose"] = B(TRUE) =>
                context.verbosity = I(1) /\ context.verbose # None)
        /\ (options["verbose"] # B(TRUE) =>
                context.verbosity = Unset /\ context.verbose = None)
        /\ (Token # "help" =>
                /\ context.concurrency.t = "int"
                /\ context.concurrency = options["concurrency"]
                /\ context.cdn \in {B(TRUE), B(FALSE)}
                /\ context.cdn = options["cdn"]
                /\ Len(constructed) = 1
                /\ context.client_manager = constructed[1])
        /\ (Token = "help" =>
                /\ context.concurrency = Unset
                /\ context.cdn = Unset
                /\ context.client_manager = Unset)

C12_Witness ==
    /\ pc = "done"
    /\ invoked = <<<<"get", <<"c">>>>>>
    /\ options["verbose"] = B(TRUE)
    /\ context.verbosity = I(1)
    /\ context.concurrency = I(1)
    /\ context.cdn = B(FALSE)
    /\ context.client_manager = constructed[1]

C12_WitnessHelp ==
    /\ pc = "done"
    /\ invoked = <<<<"help", <<>>>>>>
    /\ context.original_begin # Unset
    /\ context.concurrency = Unset
    /\ context.cdn = Unset

====
